---- MODULE Spec2Model ----
(***************************************************************************)
(* Model of margaritashotgun/repository.py: the Repository client that     *)
(* walks repomd.xml -> manifest -> kernel module and verifies sha256       *)
(* checksums on the way.                                                   *)
(*                                                                         *)
(* Byte strings are sequences of small naturals.  Text (locations,         *)
(* checksums, url pieces) is a sequence of one-character strings, so that  *)
(* str.rstrip and case-sensitive comparison are computed, not assumed.     *)
(***************************************************************************)
EXTENDS Integers, Sequences, FiniteSets, TLC

(***************************************************************************)
(* Bounds of the model.                                                    *)
(***************************************************************************)
MaxCalls == 2
MaxTime == 1

(***************************************************************************)
(* hashlib.sha256(data).hexdigest(): a digest of the bytes printed in      *)
(* lower-case hexadecimal.  The digest is an 8 bit rolling hash; as for    *)
(* sha256, equal data give equal digests and a change of one byte changes  *)
(* the digest (31 is odd, hence invertible modulo 256).                    *)
(***************************************************************************)
HexDigits == <<"0", "1", "2", "3", "4", "5", "6", "7",
               "8", "9", "a", "b", "c", "d", "e", "f">>

RECURSIVE Sha256(_)
Sha256(data) ==
    IF data = <<>> THEN 7
    ELSE (Sha256(SubSeq(data, 1, Len(data) - 1)) * 31 + data[Len(data)] + 1) % 256

HexDigest(data) ==
    <<HexDigits[(Sha256(data) \div 16) + 1], HexDigits[(Sha256(data) % 16) + 1]>>

\* str.upper() on a hex digest, used only to build a remote document that
\* declares a checksum in upper case.
UpperChar(c) ==
    CASE c = "a" -> "A" [] c = "b" -> "B" [] c = "c" -> "C"
      [] c = "d" -> "D" [] c = "e" -> "E" [] c = "f" -> "F" [] OTHER -> c

Upper(s) == [i \in 1..Len(s) |-> UpperChar(s[i])]

(***************************************************************************)
(* str.rstrip(chars): drop every trailing character that is in chars.      *)
(***************************************************************************)
RECURSIVE RStrip(_, _)
RStrip(s, chars) ==
    IF s # <<>> /\ s[Len(s)] \in chars
    THEN RStrip(SubSeq(s, 1, Len(s) - 1), chars)
    ELSE s

(***************************************************************************)
(* gzip.GzipFile(fileobj=buf).read(): a gzip member starts with the magic  *)
(* bytes 1f 8b; anything else raises IOError.  The member body is stored   *)
(* uncompressed in the model.                                              *)
(***************************************************************************)
GzipMagic == <<31, 139>>

Gzip(doc) == GzipMagic \o doc

IsGzip(raw) == Len(raw) >= 2 /\ SubSeq(raw, 1, 2) = GzipMagic

Gunzip(raw) == SubSeq(raw, 3, Len(raw))

(***************************************************************************)
(* int(text): decimal digits to a number; anything else raises ValueError, *)
(* reported here as -1.                                                    *)
(***************************************************************************)
Digits == <<"0", "1", "2", "3", "4", "5", "6", "7", "8", "9">>

DigitValue(c) == CHOOSE d \in 0..9 : Digits[d + 1] = c

IsInt(text) ==
    text # <<>> /\ \A i \in 1..Len(text) : \E d \in 0..9 : Digits[d + 1] = text[i]

RECURSIVE ParseInt(_)
ParseInt(text) ==
    IF ~IsInt(text) THEN -1
    ELSE IF Len(text) = 1 THEN DigitValue(text[1])
    ELSE ParseInt(SubSeq(text, 1, Len(text) - 1)) * 10 + DigitValue(text[Len(text)])

(***************************************************************************)
(* Values of the Python program that are not byte strings.                 *)
(***************************************************************************)
Unbound == <<-1>>
NoMap == [k \in {} |-> 0]

Put(map, key, value) ==
    [k \in DOMAIN map \cup {key} |-> IF k = key THEN value ELSE map[k]]

(***************************************************************************)
(* Artifacts a server may hold, and the manifest documents naming them.    *)
(* An XML document is a byte string of tokens: the first byte is the root  *)
(* element, each later byte one child element; byte 0 is text that is not  *)
(* well formed.  untangle.parse turns the bytes into elements.             *)
(***************************************************************************)
ArtA == <<1, 2>>
ArtB == <<3>>
ArtifactBodies == {ArtA, ArtB}

RootModules == 77
RootMetadata == 73
RootOther == 88

ModuleFields == {"name", "arch", "checksum", "version", "packager",
                 "location", "signature", "platform"}

ModuleElem(version, art, file, type, has) ==
    [type |-> type, name |-> "lime.ko", arch |-> "x86_64",
     checksum |-> HexDigest(art), version |-> version, packager |-> "lime-compiler",
     location |-> <<file, ".", "k", "o">>, signature |-> <<file, ".", "s", "i", "g">>,
     platform |-> "linux", has |-> has]

\* the module child elements a manifest token stands for
ModuleElems ==
    <<ModuleElem("v1", ArtA, "a", "lime", ModuleFields),
      ModuleElem("v1", ArtB, "b", "lime", ModuleFields),
      ModuleElem("v2", ArtB, "b", "lime", ModuleFields),
      ModuleElem("v2", ArtA, "a", "lime", ModuleFields \ {"name"})>>

WellFormed(xml) ==
    /\ xml # <<>>
    /\ xml[1] \in {RootModules, RootMetadata, RootOther}
    /\ \A i \in 2..Len(xml) : xml[i] # 0

\* untangle.parse(manifest_xml).modules raises unless the text is well
\* formed XML whose root element is `modules`
HasModules(xml) ==
    /\ WellFormed(xml)
    /\ xml[1] = RootModules
    /\ \A i \in 2..Len(xml) : xml[i] \in 1..Len(ModuleElems)

ModuleChildren(xml) == [i \in 1..(Len(xml) - 1) |-> ModuleElems[xml[i + 1]]]

\* the dict built from one child (lines 168-177); element.child of a missing
\* child raises AttributeError
ModRecord(module) ==
    [type |-> module.type, name |-> module.name, arch |-> module.arch,
     checksum |-> module.checksum, version |-> module.version,
     packager |-> module.packager, location |-> module.location,
     signature |-> module.signature, platform |-> module.platform]

ModRaises(module) == ~(ModuleFields \subseteq module.has)

\* the for loop of parse_manifest: children are stored in document order
\* until one raises; the exception ends the loop and is printed
RECURSIVE ParseModules(_, _)
ParseModules(children, manifest) ==
    IF children = <<>> THEN [table |-> manifest, printed |-> FALSE]
    ELSE IF ModRaises(Head(children)) THEN [table |-> manifest, printed |-> TRUE]
    ELSE ParseModules(Tail(children),
                      Put(manifest, Head(children).version, ModRecord(Head(children))))

parse_manifest(manifest_xml) ==
    IF ~HasModules(manifest_xml) THEN [table |-> NoMap, printed |-> TRUE]
    ELSE ParseModules(ModuleChildren(manifest_xml), NoMap)

DocGood == <<RootModules, 1, 3>>
DocDup == <<RootModules, 1, 2>>
DocPartial == <<RootModules, 1, 4, 3>>
DocNoRoot == <<RootOther, 1>>
DocMalformed == <<RootModules, 1, 0>>
NotGzip == <<60, 33>>

ManifestBodies ==
    {Gzip(DocGood), Gzip(DocDup), Gzip(DocPartial),
     Gzip(DocNoRoot), Gzip(DocMalformed), NotGzip}

(***************************************************************************)
(* The index document repomd.xml: token RevisionToken is the `revision`    *)
(* child, tokens 1..Len(DataElems) are `data` children.                    *)
(***************************************************************************)
RevisionToken == 100

DataFields == {"checksum", "open_checksum", "location", "timestamp",
               "size", "open_size"}

DataElem(type, gz, doc, location, size) ==
    [type |-> type, checksum |-> gz, open_checksum |-> doc,
     location |-> location, timestamp |-> <<"1">>, size |-> size,
     open_size |-> <<"1", "2">>, has |-> DataFields]

LocKernel == <<"k", ".", "g", "z">>
LocDebug == <<"g", ".", "g", "z">>

DataFor(type, doc, location) ==
    DataElem(type, HexDigest(Gzip(doc)), HexDigest(doc), location, <<"9">>)

\* the data elements an index token stands for
DataElems ==
    <<DataFor("kernel", DocGood, LocKernel),
      DataFor("kernel", DocDup, LocKernel),
      DataFor("kernel", DocPartial, LocKernel),
      DataFor("kernel", DocNoRoot, LocKernel),
      DataFor("kernel", DocMalformed, LocKernel),
      DataElem("kernel", HexDigest(NotGzip), HexDigest(DocGood), LocKernel, <<"9">>),
      DataElem("kernel", HexDigest(Gzip(DocGood)), HexDigest(DocDup), LocKernel, <<"9">>),
      DataFor("debug", DocGood, LocDebug),
      DataElem("kernel", HexDigest(Gzip(DocGood)), HexDigest(DocGood), LocKernel, <<"x">>),
      DataElem("kernel", Upper(HexDigest(Gzip(DocGood))), HexDigest(DocGood),
               LocKernel, <<"9">>)>>

IndexOf(tokens) == <<RootMetadata, RevisionToken>> \o tokens

IndexBodies ==
    {IndexOf(<<t>>) : t \in 1..Len(DataElems)}
      \cup {IndexOf(<<1, 8>>), IndexOf(<<7, 1>>), IndexOf(<<2, 8, 1>>), IndexOf(<<>>),
            <<RootMetadata, 1>>, IndexOf(<<0>>), <<RootOther, RevisionToken, 1>>}

SigBodies == {<<5>>, <<6>>}

DataTokens(xml) == SelectSeq(Tail(xml), LAMBDA t : t # RevisionToken)

\* mdata.data: untangle gives the element itself when there is one `data`
\* child and a list when there are several
IsList(xml) == Len(DataTokens(xml)) > 1

MdataData(xml) ==
    IF IsList(xml) THEN [i \in 1..Len(DataTokens(xml)) |-> DataElems[DataTokens(xml)[i]]]
    ELSE DataElems[DataTokens(xml)[1]]

ManifestDict(manifest) ==
    [type |-> manifest.type, checksum |-> manifest.checksum,
     open_checksum |-> manifest.open_checksum, location |-> manifest.location,
     timestamp |-> ParseInt(manifest.timestamp), size |-> ParseInt(manifest.size),
     open_size |-> ParseInt(manifest.open_size)]

DataRaises(manifest) ==
    \/ ~(DataFields \subseteq manifest.has)
    \/ ~IsInt(manifest.timestamp) \/ ~IsInt(manifest.size) \/ ~IsInt(manifest.open_size)

\* the loop of parse_metadata keeping the first entry of a type
RECURSIVE ParseData_FirstWins(_, _)
ParseData_FirstWins(manifests, dict) ==
    IF manifests = <<>> THEN dict
    ELSE ParseData_FirstWins(Tail(manifests),
                             IF Head(manifests).type \in DOMAIN dict THEN dict
                             ELSE Put(dict, Head(manifests).type,
                                      ManifestDict(Head(manifests))))

RECURSIVE ParseData(_, _)
ParseData(manifests, dict) ==
    IF manifests = <<>> THEN dict
    ELSE ParseData(Tail(manifests),
                   Put(dict, Head(manifests).type, ManifestDict(Head(manifests))))

\* the list parse_metadata iterates over (lines 100-103)
Manifests(xml) == IF IsList(xml) THEN MdataData(xml) ELSE <<MdataData(xml)>>

\* every way the try block of parse_metadata raises (lines 93-115)
MetadataRaises(xml) ==
    \/ ~WellFormed(xml)
    \/ xml[1] # RootMetadata
    \/ \E i \in 2..Len(xml) : xml[i] # RevisionToken /\ xml[i] \notin 1..Len(DataElems)
    \/ Cardinality({i \in 2..Len(xml) : xml[i] = RevisionToken}) # 1
    \/ DataTokens(xml) = <<>>
    \/ \E i \in 1..Len(Manifests(xml)) : DataRaises(Manifests(xml)[i])

parse_metadata(metadata_xml) ==
    [revision |-> "1", manifests |-> ParseData(Manifests(metadata_xml), NoMap)]

(***************************************************************************)
(* State: the Repository object, the local storage, the clock, and the     *)
(* frame of the fetch invocation in progress.  log is the history of the   *)
(* calls the invocation has made so far.                                   *)
(***************************************************************************)
VARIABLES url, gpg_verify, metadata_dir, metadata_file,
          files, now, calls,
          pc, kernel_version, manifest_type,
          raw_metadata, signature, metadata, descriptor,
          gz_manifest, manifest, table, module, filename,
          result, log, prev

self == <<url, gpg_verify, metadata_dir, metadata_file>>
args == <<kernel_version, manifest_type>>
locals == <<raw_metadata, signature, metadata, descriptor,
            gz_manifest, manifest, table, module, filename>>
vars == <<self, files, now, calls, pc, args, locals, result, log, prev>>

KernelVersions == {"v1", "v2", "v9"}
ManifestTypes == {"kernel", "debug"}
StatusCodes == {200, 404}

NoText == <<>>
NoFile == [stamp |-> -1, version |-> ""]
NoDescriptor == ManifestDict(DataFor("", <<>>, NoText))
NoMetadata == [revision |-> "", manifests |-> NoMap]
NoModule == ModRecord(ModuleElem("", <<>>, "", "", {}))

\* the outcome of an invocation: the value returned or the exception raised
Outcome(kind, path, reason, status, expected, got, key, file) ==
    [kind |-> kind, path |-> path, reason |-> reason, status |-> status,
     expected |-> expected, got |-> got, key |-> key, file |-> file]

NoResult == Outcome("none", <<>>, "", 0, NoText, NoText, "", NoFile)

Returned(file) == Outcome("return", <<>>, "", 0, NoText, NoText, "", file)

StatusError(path, status) ==
    Outcome("RepositoryError", path, "status code not 200", status,
            NoText, NoText, "", NoFile)

Event(op, path, data, status, expected, ok) ==
    [op |-> op, path |-> path, data |-> data, status |-> status,
     expected |-> expected, ok |-> ok]

Get(path, status, body) == Event("GET", path, body, status, NoText, status = 200)

\* "{0}/{1}".format(self.url, location)
UrlOf(location) == <<url, "/">> \o location

metadata_path == <<url, "/", metadata_dir, "/", metadata_file>>
metadata_sig_path == <<url, "/", metadata_dir, "/", metadata_file, ".sig">>

\* verify_checksum comparing the digests without regard to case
verify_checksum_IgnoreCase(data, checksum, label) ==
    IF Upper(HexDigest(data)) # Upper(checksum)
    THEN Outcome("RepositoryError", UrlOf(label), "checksum verification failed",
                 0, checksum, HexDigest(data), "", NoFile)
    ELSE NoResult

\* verify_checksum with the two values of its message exchanged
verify_checksum_Swapped(data, checksum, label) ==
    IF HexDigest(data) # checksum
    THEN Outcome("RepositoryError", UrlOf(label), "checksum verification failed",
                 0, HexDigest(data), checksum, "", NoFile)
    ELSE NoResult

(***************************************************************************)
(* verify_checksum(data, checksum, filename): NoResult when the digest of  *)
(* data equals checksum, else the RepositoryError it raises.               *)
(***************************************************************************)
verify_checksum(data, checksum, label) ==
    IF HexDigest(data) # checksum
    THEN Outcome("RepositoryError", UrlOf(label), "checksum verification failed",
                 0, checksum, HexDigest(data), "", NoFile)
    ELSE NoResult

Verified(data, checksum, label) ==
    Event("verify_checksum", UrlOf(label), data, 0, checksum,
          verify_checksum(data, checksum, label) = NoResult)

\* what a caller has observed of an invocation: the Repository it ran on, its
\* arguments, the calls it made and its outcome
Observed ==
    [done |-> calls > 0, calls |-> calls, gpg_verify |-> gpg_verify,
     kernel_version |-> kernel_version, manifest_type |-> manifest_type,
     log |-> log, result |-> result]

NoPrev ==
    [done |-> FALSE, calls |-> -1, gpg_verify |-> FALSE, kernel_version |-> "",
     manifest_type |-> "", log |-> <<>>, result |-> NoResult]

\* the last invocation is observed once, on the Repository it ran on
Remembered == IF prev.calls = calls THEN prev ELSE Observed

Finished == {"idle", "returned", "raised"}

Init ==
    /\ url = "http://repo"
    /\ gpg_verify \in BOOLEAN
    /\ metadata_dir = "repodata"
    /\ metadata_file = "repomd.xml"
    /\ files = NoMap
    /\ now = 0
    /\ calls = 0
    /\ pc = "idle"
    /\ kernel_version = ""
    /\ manifest_type = ""
    /\ raw_metadata = Unbound
    /\ signature = Unbound
    /\ metadata = NoMetadata
    /\ descriptor = NoDescriptor
    /\ gz_manifest = Unbound
    /\ manifest = Unbound
    /\ table = NoMap
    /\ module = NoModule
    /\ filename = NoFile
    /\ result = NoResult
    /\ log = <<>>
    /\ prev = NoPrev

Raise(exception) ==
    /\ pc' = "raised"
    /\ result' = exception

\* entering fetch without forgetting the index of the invocation before
Enter_Cached(version, type) ==
    /\ pc \in Finished
    /\ calls < MaxCalls
    /\ calls' = calls + 1
    /\ kernel_version' = version
    /\ manifest_type' = type
    /\ raw_metadata' = Unbound
    /\ signature' = Unbound
    /\ descriptor' = NoDescriptor
    /\ gz_manifest' = Unbound
    /\ manifest' = Unbound
    /\ table' = NoMap
    /\ module' = NoModule
    /\ filename' = NoFile
    /\ result' = NoResult
    /\ log' = <<>>
    /\ pc' = IF metadata = NoMetadata THEN "get_metadata" ELSE "select_manifest"
    /\ UNCHANGED <<self, files, now, metadata>>

\* a caller invokes fetch(kernel_version, manifest_type): the frame of the
\* invocation is fresh, nothing of an earlier invocation is kept
Enter(version, type) ==
    /\ pc \in Finished
    /\ calls < MaxCalls
    /\ calls' = calls + 1
    /\ kernel_version' = version
    /\ manifest_type' = type
    /\ raw_metadata' = Unbound
    /\ signature' = Unbound
    /\ metadata' = NoMetadata
    /\ descriptor' = NoDescriptor
    /\ gz_manifest' = Unbound
    /\ manifest' = Unbound
    /\ table' = NoMap
    /\ module' = NoModule
    /\ filename' = NoFile
    /\ result' = NoResult
    /\ log' = <<>>
    /\ pc' = "get_metadata"
    /\ UNCHANGED <<self, files, now>>

Fetch(version, type) ==
    /\ Enter(version, type)
    /\ UNCHANGED prev

\* the same call, with the invocation before it remembered for comparison
FetchAgain(version, type) ==
    /\ Enter(version, type)
    /\ prev' = Remembered

\* Repository(url, gpg_verify): the caller constructs the client anew
Construct(verify) ==
    /\ pc \in {"returned", "raised"}
    /\ calls < MaxCalls
    /\ verify # gpg_verify
    /\ url' = url
    /\ gpg_verify' = verify
    /\ metadata_dir' = "repodata"
    /\ metadata_file' = "repomd.xml"
    /\ prev' = Remembered
    /\ UNCHANGED <<files, now, calls, pc, args, locals, result, log>>

\* get_metadata asking for the signature whatever gpg_verify is
GetMetadata_AlwaysSig(status, body) ==
    /\ pc = "get_metadata"
    /\ log' = Append(log, Get(metadata_path, status, body))
    /\ IF status = 200
       THEN /\ raw_metadata' = body
            /\ pc' = "get_signature"
            /\ UNCHANGED result
       ELSE /\ Raise(StatusError(metadata_path, status))
            /\ UNCHANGED raw_metadata
    /\ UNCHANGED <<prev, self, files, now, calls, args, signature, metadata, descriptor,
                   gz_manifest, manifest, table, module, filename>>

\* get_metadata, lines 65-70: GET repomd.xml
GetMetadata(status, body) ==
    /\ pc = "get_metadata"
    /\ log' = Append(log, Get(metadata_path, status, body))
    /\ IF status = 200
       THEN /\ raw_metadata' = body
            /\ pc' = IF gpg_verify THEN "get_signature" ELSE "parse_metadata"
            /\ UNCHANGED result
       ELSE /\ Raise(StatusError(metadata_path, status))
            /\ UNCHANGED raw_metadata
    /\ UNCHANGED <<prev, self, files, now, calls, args, signature, metadata, descriptor,
                   gz_manifest, manifest, table, module, filename>>

\* get_metadata, lines 73-80: GET repomd.xml.sig when gpg_verify is set
GetSignature(status, body) ==
    /\ pc = "get_signature"
    /\ log' = Append(log, Get(metadata_sig_path, status, body))
    /\ IF status = 200
       THEN /\ signature' = body
            /\ pc' = "parse_metadata"
            /\ UNCHANGED result
       ELSE /\ Raise(StatusError(metadata_sig_path, status))
            /\ UNCHANGED signature
    /\ UNCHANGED <<prev, self, files, now, calls, args, raw_metadata, metadata, descriptor,
                   gz_manifest, manifest, table, module, filename>>

\* get_metadata rejecting one of the signatures before it parses the index
ParseMetadata_CheckSignature ==
    /\ pc = "parse_metadata"
    /\ log' = Append(log, Event("parse_metadata", metadata_path, raw_metadata, 0,
                                NoText, ~MetadataRaises(raw_metadata)))
    /\ IF MetadataRaises(raw_metadata) \/ (gpg_verify /\ signature = <<6>>)
       THEN /\ Raise(Outcome("RepositoryError", <<url, "/", metadata_dir>>,
                             "parse", 0, NoText, NoText, "", NoFile))
            /\ UNCHANGED metadata
       ELSE /\ metadata' = parse_metadata(raw_metadata)
            /\ pc' = "select_manifest"
            /\ UNCHANGED result
    /\ UNCHANGED <<prev, self, files, now, calls, args, raw_metadata, signature, descriptor,
                   gz_manifest, manifest, table, module, filename>>

\* get_metadata line 84 and parse_metadata
ParseMetadata ==
    /\ pc = "parse_metadata"
    /\ log' = Append(log, Event("parse_metadata", metadata_path, raw_metadata, 0,
                                NoText, ~MetadataRaises(raw_metadata)))
    /\ IF MetadataRaises(raw_metadata)
       THEN /\ Raise(Outcome("RepositoryError", <<url, "/", metadata_dir>>,
                             "parse", 0, NoText, NoText, "", NoFile))
            /\ UNCHANGED metadata
       ELSE /\ metadata' = parse_metadata(raw_metadata)
            /\ pc' = "select_manifest"
            /\ UNCHANGED result
    /\ UNCHANGED <<prev, self, files, now, calls, args, raw_metadata, signature, descriptor,
                   gz_manifest, manifest, table, module, filename>>

\* fetch line 43: metadata['manifests'][manifest_type]
SelectManifest ==
    /\ pc = "select_manifest"
    /\ IF manifest_type \in DOMAIN metadata.manifests
       THEN /\ descriptor' = metadata.manifests[manifest_type]
            /\ pc' = "get_manifest"
            /\ UNCHANGED result
       ELSE /\ Raise(Outcome("KeyError", <<>>, "", 0, NoText, NoText,
                             manifest_type, NoFile))
            /\ UNCHANGED descriptor
    /\ UNCHANGED <<prev, self, files, now, calls, args, raw_metadata, signature, metadata,
                   gz_manifest, manifest, table, module, filename, log>>

\* get_manifest asking again when the status is not 200
GetManifest_Retry(status, body) ==
    /\ pc = "get_manifest"
    /\ log' = Append(log, Get(UrlOf(descriptor.location), status, body))
    /\ gz_manifest' = IF status = 200 THEN body ELSE Unbound
    /\ pc' = IF status = 200 \/ Len(log) > 3 THEN "verify_compressed" ELSE "get_manifest"
    /\ UNCHANGED <<prev, self, files, now, calls, args, raw_metadata, signature, metadata,
                   descriptor, manifest, table, module, filename, result>>

\* get_manifest, lines 130-133: GET the manifest; gz_manifest is bound only
\* when the status is 200
GetManifest(status, body) ==
    /\ pc = "get_manifest"
    /\ log' = Append(log, Get(UrlOf(descriptor.location), status, body))
    /\ gz_manifest' = IF status = 200 THEN body ELSE Unbound
    /\ pc' = "verify_compressed"
    /\ UNCHANGED <<prev, self, files, now, calls, args, raw_metadata, signature, metadata,
                   descriptor, manifest, table, module, filename, result>>

\* get_manifest decompressing without looking at the result of the check
VerifyCompressed_Skip ==
    /\ pc = "verify_compressed"
    /\ IF gz_manifest = Unbound
       THEN /\ Raise(Outcome("UnboundLocalError", <<>>, "", 0, NoText, NoText,
                             "gz_manifest", NoFile))
            /\ UNCHANGED log
       ELSE /\ log' = Append(log, Verified(gz_manifest, descriptor.checksum,
                                           descriptor.location))
            /\ pc' = "unzip_manifest"
            /\ UNCHANGED result
    /\ UNCHANGED <<prev, self, files, now, calls, args, locals>>

\* get_manifest, lines 135-136: reading the unbound gz_manifest raises
\* UnboundLocalError before verify_checksum is entered
VerifyCompressed ==
    /\ pc = "verify_compressed"
    /\ IF gz_manifest = Unbound
       THEN /\ Raise(Outcome("UnboundLocalError", <<>>, "", 0, NoText, NoText,
                             "gz_manifest", NoFile))
            /\ UNCHANGED log
       ELSE /\ log' = Append(log, Verified(gz_manifest, descriptor.checksum,
                                           descriptor.location))
            /\ IF verify_checksum(gz_manifest, descriptor.checksum,
                                  descriptor.location) = NoResult
               THEN pc' = "unzip_manifest" /\ UNCHANGED result
               ELSE Raise(verify_checksum(gz_manifest, descriptor.checksum,
                                          descriptor.location))
    /\ UNCHANGED <<prev, self, files, now, calls, args, locals>>

\* get_manifest line 137 and unzip_manifest
UnzipManifest ==
    /\ pc = "unzip_manifest"
    /\ log' = Append(log, Event("unzip_manifest", <<>>, gz_manifest, 0, NoText,
                                IsGzip(gz_manifest)))
    /\ IF IsGzip(gz_manifest)
       THEN /\ manifest' = Gunzip(gz_manifest)
            /\ pc' = "verify_open"
            /\ UNCHANGED result
       ELSE /\ Raise(Outcome("IOError", <<>>, "Not a gzipped file", 0, NoText,
                             NoText, "", NoFile))
            /\ UNCHANGED manifest
    /\ UNCHANGED <<prev, self, files, now, calls, args, raw_metadata, signature, metadata,
                   descriptor, gz_manifest, table, module, filename>>

\* metadata['location'].rstrip('.gz')
OpenLabel(location) == RStrip(location, {".", "g", "z"})

\* get_manifest parsing without looking at the result of the check
VerifyOpen_Skip ==
    /\ pc = "verify_open"
    /\ log' = Append(log, Verified(manifest, descriptor.open_checksum,
                                   OpenLabel(descriptor.location)))
    /\ pc' = "parse_manifest"
    /\ UNCHANGED result
    /\ UNCHANGED <<prev, self, files, now, calls, args, locals>>

\* get_manifest, lines 138-139
VerifyOpen ==
    /\ pc = "verify_open"
    /\ log' = Append(log, Verified(manifest, descriptor.open_checksum,
                                   OpenLabel(descriptor.location)))
    /\ IF verify_checksum(manifest, descriptor.open_checksum,
                          OpenLabel(descriptor.location)) = NoResult
       THEN pc' = "parse_manifest" /\ UNCHANGED result
       ELSE Raise(verify_checksum(manifest, descriptor.open_checksum,
                                  OpenLabel(descriptor.location)))
    /\ UNCHANGED <<prev, self, files, now, calls, args, locals>>

\* get_manifest line 141 and parse_manifest: whatever the document, a table
\* comes back
ParseManifest ==
    /\ pc = "parse_manifest"
    /\ log' = Append(log, Event("parse_manifest", <<>>, manifest, 0, NoText,
                                ~parse_manifest(manifest).printed))
    /\ table' = parse_manifest(manifest).table
    /\ pc' = "lookup"
    /\ UNCHANGED <<prev, self, files, now, calls, args, raw_metadata, signature, metadata,
                   descriptor, gz_manifest, manifest, module, filename, result>>

\* fetch falling back to some record of the table when the version is absent
Lookup_AnyRecord ==
    /\ pc = "lookup"
    /\ IF DOMAIN table # {}
       THEN /\ module' = IF kernel_version \in DOMAIN table
                         THEN table[kernel_version]
                         ELSE table[CHOOSE k \in DOMAIN table : TRUE]
            /\ pc' = "fetch_module"
            /\ UNCHANGED result
       ELSE /\ Raise(Outcome("KernelModuleNotFoundError", <<url>>, "", 0, NoText,
                             NoText, kernel_version, NoFile))
            /\ UNCHANGED module
    /\ UNCHANGED <<prev, self, files, now, calls, args, raw_metadata, signature, metadata,
                   descriptor, gz_manifest, manifest, table, filename, log>>

\* fetch, lines 45-49
Lookup ==
    /\ pc = "lookup"
    /\ IF kernel_version \in DOMAIN table
       THEN /\ module' = table[kernel_version]
            /\ pc' = "fetch_module"
            /\ UNCHANGED result
       ELSE /\ Raise(Outcome("KernelModuleNotFoundError", <<url>>, "", 0, NoText,
                             NoText, kernel_version, NoFile))
            /\ UNCHANGED module
    /\ UNCHANGED <<prev, self, files, now, calls, args, raw_metadata, signature, metadata,
                   descriptor, gz_manifest, manifest, table, filename, log>>

\* "lime-{0}-{1}.ko".format(datestamp, module['version'])
FileName(tm, version) == [stamp |-> tm, version |-> version]

\* fetch_module, lines 192-200: the body of the reply is written to the file
\* whatever the status of the reply
FetchModule(tm, status, body) ==
    /\ pc = "fetch_module"
    /\ now' = tm
    /\ filename' = FileName(tm, module.version)
    /\ files' = Put(files, FileName(tm, module.version), body)
    /\ log' = log \o <<Get(UrlOf(module.location), status, body),
                       Event("write", <<>>, body, 0, NoText, TRUE)>>
    /\ pc' = "verify_module"
    /\ UNCHANGED <<prev, self, calls, args, raw_metadata, signature, metadata,
                   descriptor, gz_manifest, manifest, table, module, result>>

\* fetch_module removing the file when its checksum does not verify
VerifyModule_Cleanup ==
    /\ pc = "verify_module"
    /\ log' = Append(log, Verified(files[filename], module.checksum, module.location))
    /\ IF verify_checksum(files[filename], module.checksum, module.location) = NoResult
       THEN pc' = "returned" /\ result' = Returned(filename) /\ UNCHANGED files
       ELSE /\ Raise(verify_checksum(files[filename], module.checksum, module.location))
            /\ files' = [name \in DOMAIN files \ {filename} |-> files[name]]
    /\ UNCHANGED <<prev, self, now, calls, args, locals>>

\* fetch_module returning the file name without the checksum deciding
VerifyModule_NoCheck ==
    /\ pc = "verify_module"
    /\ log' = Append(log, Verified(files[filename], module.checksum, module.location))
    /\ pc' = "returned"
    /\ result' = Returned(filename)
    /\ UNCHANGED <<prev, self, files, now, calls, args, locals>>

\* fetch_module lines 202-203, verify_module, fetch line 52
VerifyModule ==
    /\ pc = "verify_module"
    /\ log' = Append(log, Verified(files[filename], module.checksum, module.location))
    /\ IF verify_checksum(files[filename], module.checksum, module.location) = NoResult
       THEN pc' = "returned" /\ result' = Returned(filename)
       ELSE Raise(verify_checksum(files[filename], module.checksum, module.location))
    /\ UNCHANGED <<prev, self, files, now, calls, args, locals>>

Next ==
    \/ \E version \in KernelVersions, type \in ManifestTypes : Fetch(version, type)
    \/ \E status \in StatusCodes, body \in IndexBodies : GetMetadata(status, body)
    \/ \E status \in StatusCodes, body \in SigBodies : GetSignature(status, body)
    \/ ParseMetadata
    \/ SelectManifest
    \/ \E status \in StatusCodes, body \in ManifestBodies : GetManifest(status, body)
    \/ VerifyCompressed
    \/ UnzipManifest
    \/ VerifyOpen
    \/ ParseManifest
    \/ Lookup
    \/ \E tm \in now..MaxTime, status \in StatusCodes, body \in ArtifactBodies :
           FetchModule(tm, status, body)
    \/ VerifyModule

Spec == Init /\ [][Next]_vars

(***************************************************************************)
(* Two invocations in a row, the first remembered in prev, with the client *)
(* possibly constructed anew in between; the remote answers are drawn from *)
(* a part of the documents above.                                          *)
(***************************************************************************)
IndexBodiesTwice == {IndexOf(<<1>>), IndexOf(<<3>>), IndexOf(<<0>>)}
ManifestBodiesTwice == {Gzip(DocGood), Gzip(DocPartial), NotGzip}
KernelVersionsTwice == {"v1", "v9"}
ManifestTypesTwice == {"kernel"}

NextTwice ==
    \/ \E version \in KernelVersionsTwice, type \in ManifestTypesTwice :
           FetchAgain(version, type)
    \/ \E verify \in BOOLEAN : Construct(verify)
    \/ \E status \in StatusCodes, body \in IndexBodiesTwice : GetMetadata(status, body)
    \/ \E status \in StatusCodes, body \in SigBodies : GetSignature(status, body)
    \/ ParseMetadata
    \/ SelectManifest
    \/ \E status \in StatusCodes, body \in ManifestBodiesTwice : GetManifest(status, body)
    \/ VerifyCompressed
    \/ UnzipManifest
    \/ VerifyOpen
    \/ ParseManifest
    \/ Lookup
    \/ \E tm \in now..MaxTime, status \in StatusCodes, body \in ArtifactBodies :
           FetchModule(tm, status, body)
    \/ VerifyModule

SpecTwice == Init /\ [][NextTwice]_vars

(***************************************************************************)
(* The calls of the invocation in progress, read off its history.          *)
(***************************************************************************)
Calls(op) == SelectSeq(log, LAMBDA e : e.op = op)

Positions(op) == {i \in DOMAIN log : log[i].op = op}

Checks == Calls("verify_checksum")

Passed(e) == e.ok /\ HexDigest(e.data) = e.expected

GetsOf(path) == {i \in Positions("GET") : log[i].path = path}

\* C1: whenever fetch returns a file name, verify_checksum has passed three
\* times in that invocation, in this order: on the compressed manifest bytes
\* against the descriptor's checksum, on the decompressed manifest bytes
\* against the descriptor's open_checksum, and on the bytes re-read from the
\* written file against the record's checksum; so the digest of the returned
\* file equals the record's checksum, whatever gpg_verify is.
C1_ReturnedIsVerified ==
    pc = "returned" =>
        /\ result = Returned(filename)
        /\ result.file \in DOMAIN files
        /\ descriptor = metadata.manifests[manifest_type]
        /\ module = table[kernel_version]
        /\ Len(Checks) = 3
        /\ \A i \in 1..3 : Passed(Checks[i])
        /\ Checks[1].data = gz_manifest
        /\ Checks[1].expected = descriptor.checksum
        /\ Checks[2].data = manifest
        /\ Checks[2].expected = descriptor.open_checksum
        /\ Checks[3].data = files[result.file]
        /\ Checks[3].expected = module.checksum
        /\ HexDigest(files[result.file]) = module.checksum

C1_Witness ==
    /\ pc = "returned"
    /\ gpg_verify
    /\ Len(Checks) = 3
    /\ HexDigest(files[result.file]) = module.checksum

\* C2: the decoder is only ever handed a payload that verify_checksum has
\* already accepted against descriptor.checksum; once a fetched payload whose
\* digest differs from descriptor.checksum has been checked, the invocation
\* has failed and unzip_manifest has not been called.
C2_VerifyBeforeUnzip ==
    /\ \A j \in Positions("unzip_manifest") :
           /\ HexDigest(log[j].data) = descriptor.checksum
           /\ \E i \in Positions("verify_checksum") :
                  /\ i < j
                  /\ log[i].data = log[j].data
                  /\ log[i].expected = descriptor.checksum
                  /\ Passed(log[i])
    /\ (/\ gz_manifest # Unbound
        /\ pc # "verify_compressed"
        /\ HexDigest(gz_manifest) # descriptor.checksum)
           => /\ pc = "raised"
              /\ result.kind = "RepositoryError"
              /\ Positions("unzip_manifest") = {}

C2_Witness ==
    /\ pc = "raised"
    /\ gz_manifest # Unbound
    /\ IsGzip(gz_manifest)
    /\ HexDigest(gz_manifest) # descriptor.checksum
    /\ Len(Checks) = 1
    /\ Positions("unzip_manifest") = {}

\* C3: parse_manifest is only ever handed a decompressed document that
\* verify_checksum has already accepted against descriptor.open_checksum; once
\* a decompressed document whose digest differs from open_checksum has been
\* checked, the invocation has failed and parse_manifest has not been called.
C3_VerifyBeforeParse ==
    /\ \A j \in Positions("parse_manifest") :
           /\ HexDigest(log[j].data) = descriptor.open_checksum
           /\ \E i \in Positions("verify_checksum") :
                  /\ i < j
                  /\ log[i].data = log[j].data
                  /\ log[i].expected = descriptor.open_checksum
                  /\ Passed(log[i])
    /\ (/\ manifest # Unbound
        /\ pc # "verify_open"
        /\ HexDigest(manifest) # descriptor.open_checksum)
           => /\ pc = "raised"
              /\ result.kind = "RepositoryError"
              /\ Positions("parse_manifest") = {}

C3_Witness ==
    /\ pc = "raised"
    /\ manifest # Unbound
    /\ HexDigest(manifest) # descriptor.open_checksum
    /\ Len(Checks) = 2
    /\ Positions("parse_manifest") = {}

\* C4: when the digest of the compressed manifest payload differs from the
\* descriptor's checksum, fetch fails with an error that names the manifest
\* location, the expected checksum and the computed digest, and the invocation
\* has issued no artifact GET and written no file.
C4_CompressedMismatch ==
    (/\ gz_manifest # Unbound
     /\ pc # "verify_compressed"
     /\ HexDigest(gz_manifest) # descriptor.checksum)
        => /\ pc = "raised"
           /\ result.kind = "RepositoryError"
           /\ result.reason = "checksum verification failed"
           /\ result.path = UrlOf(descriptor.location)
           /\ result.expected = descriptor.checksum
           /\ result.got = HexDigest(gz_manifest)
           /\ Positions("GET") \subseteq
                  GetsOf(metadata_path) \cup GetsOf(metadata_sig_path)
                      \cup GetsOf(UrlOf(descriptor.location))
           /\ Cardinality(GetsOf(UrlOf(descriptor.location))) = 1
           /\ Positions("write") = {}

C4_Witness ==
    /\ pc = "raised"
    /\ gz_manifest # Unbound
    /\ HexDigest(gz_manifest) # descriptor.checksum
    /\ result.got = HexDigest(gz_manifest)
    /\ result.expected = Upper(HexDigest(Gzip(DocGood)))

MetadataGets == GetsOf(metadata_path) \cup GetsOf(metadata_sig_path)

ManifestGets == GetsOf(UrlOf(descriptor.location))

ArtifactGets == Positions("GET") \ (MetadataGets \cup ManifestGets)

\* the index has been parsed and line 43 has looked the type up
TypeLookedUp ==
    /\ \E i \in Positions("parse_metadata") : log[i].ok
    /\ pc # "select_manifest"

\* C5: when manifest_type is not a key of the parsed index's manifests
\* mapping, fetch raises ManifestTypeNotFoundError(manifest_type), and it has
\* issued no GET for a manifest or an artifact.
C5_AbsentTypeError ==
    (TypeLookedUp /\ manifest_type \notin DOMAIN metadata.manifests)
        => /\ pc = "raised"
           /\ result.kind = "ManifestTypeNotFoundError"
           /\ result.key = manifest_type
           /\ Positions("GET") \subseteq MetadataGets

\* the manifest table has been built and lines 45-49 have looked the version up
VersionLookedUp ==
    /\ Positions("parse_manifest") # {}
    /\ pc # "lookup"

\* C6: once the table is resolved, a kernel_version that is a key selects
\* exactly the record stored under it and that record is the one fetch_module
\* downloads; a kernel_version that is not a key raises
\* KernelModuleNotFoundError with that version and the base url, with no
\* artifact GET and no file written.
C6_VersionLookup ==
    VersionLookedUp =>
        IF kernel_version \in DOMAIN table
        THEN /\ module = table[kernel_version]
             /\ result.kind # "KernelModuleNotFoundError"
             /\ pc # "fetch_module" =>
                    /\ Cardinality(ArtifactGets) = 1
                    /\ \A i \in ArtifactGets :
                           log[i].path = UrlOf(table[kernel_version].location)
                    /\ filename.version = table[kernel_version].version
        ELSE /\ pc = "raised"
             /\ result.kind = "KernelModuleNotFoundError"
             /\ result.key = kernel_version
             /\ result.path = <<url>>
             /\ ArtifactGets = {}
             /\ Positions("write") = {}

C6_Witness ==
    /\ VersionLookedUp
    /\ pc = "returned"
    /\ Cardinality(DOMAIN table) = 2
    /\ kernel_version = "v2"
    /\ module.version = "v2"

C6_WitnessAbsent ==
    /\ VersionLookedUp
    /\ DOMAIN table # {}
    /\ kernel_version \notin DOMAIN table
    /\ result.kind = "KernelModuleNotFoundError"

\* C7: when the GET of the manifest location returns a status other than 200,
\* get_manifest fails with the repository's transport error carrying the path
\* and the status, and no checksum verification, decompression or parsing of
\* a manifest is performed.
C7_ManifestStatusError ==
    \A i \in ManifestGets :
        (log[i].status # 200 /\ pc # "verify_compressed")
            => /\ pc = "raised"
               /\ result = StatusError(UrlOf(descriptor.location), log[i].status)
               /\ Checks = <<>>
               /\ Positions("unzip_manifest") = {}
               /\ Positions("parse_manifest") = {}

\* C8: when the GET of the artifact location returns a status other than 200,
\* fetch_module fails with a transport failure for that path and status; the
\* body of that reply is neither written to the destination file nor handed
\* to verify_checksum.
C8_ArtifactStatusError ==
    \A i \in ArtifactGets :
        log[i].status # 200
            => /\ pc = "raised"
               /\ result = StatusError(UrlOf(module.location), log[i].status)
               /\ Positions("write") = {}
               /\ Len(Checks) = 2

\* C9: in get_metadata a status other than 200 on the index GET raises the
\* transport error with the index path and the status and the index is not
\* parsed; the .sig companion is requested exactly when gpg_verify is set,
\* only after the index GET succeeded and before parsing; a status other than
\* 200 on the .sig GET raises the same error with the .sig path and the status
\* and the index is not parsed.
C9_GetMetadata ==
    /\ log # <<>> => log[1] = Get(metadata_path, log[1].status, log[1].data)
    /\ GetsOf(metadata_path) \subseteq {1}
    /\ (log # <<>> /\ log[1].status # 200)
           => /\ pc = "raised"
              /\ result = StatusError(metadata_path, log[1].status)
              /\ Len(log) = 1
    /\ \A i \in GetsOf(metadata_sig_path) :
           /\ gpg_verify
           /\ i = 2
           /\ log[1].status = 200
           /\ log[i].status # 200
                  => /\ pc = "raised"
                     /\ result = StatusError(metadata_sig_path, log[i].status)
                     /\ Len(log) = 2
    /\ (gpg_verify /\ log # <<>> /\ log[1].status = 200 /\ pc # "get_signature")
           => GetsOf(metadata_sig_path) = {2}
    /\ \A i \in Positions("parse_metadata") :
           /\ i = IF gpg_verify THEN 3 ELSE 2
           /\ \A j \in 1..(i - 1) : log[j].op = "GET" /\ log[j].status = 200
           /\ log[i].data = log[1].data

C9_Witness ==
    /\ gpg_verify
    /\ pc = "raised"
    /\ Len(log) = 2
    /\ log[2].path = metadata_sig_path
    /\ log[2].status = 404

C9_WitnessParsed ==
    /\ gpg_verify
    /\ Positions("parse_metadata") = {3}
    /\ GetsOf(metadata_sig_path) = {2}

\* C10: parse_manifest fails with MetadataParseError whenever the manifest
\* document has a structural violation; a fetch over such a document surfaces
\* that error instead of a table that is empty or holds the records parsed
\* so far.
C10_ManifestParseError ==
    \A i \in Positions("parse_manifest") :
        ~log[i].ok
            => /\ pc = "raised"
               /\ result.kind = "MetadataParseError"

\* the `data` elements of the index being parsed, in document order
DataOf(xml) == [i \in 1..Len(DataTokens(xml)) |-> DataElems[DataTokens(xml)[i]]]

LastOfType(elems, type) ==
    CHOOSE i \in 1..Len(elems) :
        /\ elems[i].type = type
        /\ \A j \in (i + 1)..Len(elems) : elems[j].type # type

IndexParsed ==
    /\ \E i \in Positions("parse_metadata") : log[i].ok
    /\ pc # "parse_metadata"

\* C11: parse_metadata treats a single `data` element as the one-element list
\* holding it: the mapping then has exactly that element's descriptor under
\* its type; for a list of n elements the mapping has exactly one descriptor
\* per distinct type, holding the fields of the last element of that type.
C11_IndexMapping ==
    IndexParsed =>
        LET elems == DataOf(raw_metadata) IN
        /\ DOMAIN metadata.manifests = {elems[i].type : i \in 1..Len(elems)}
        /\ \A type \in DOMAIN metadata.manifests :
               metadata.manifests[type] = ManifestDict(elems[LastOfType(elems, type)])
        /\ Len(elems) = 1 =>
               metadata.manifests =
                   [type \in {elems[1].type} |-> ManifestDict(elems[1])]

C11_Witness ==
    /\ IndexParsed
    /\ Len(DataOf(raw_metadata)) = 3
    /\ DataOf(raw_metadata)[1].type = DataOf(raw_metadata)[3].type
    /\ DataOf(raw_metadata)[1].checksum # DataOf(raw_metadata)[3].checksum
    /\ Cardinality(DOMAIN metadata.manifests) = 2

C11_WitnessSingle ==
    /\ IndexParsed
    /\ ~IsList(raw_metadata)
    /\ Cardinality(DOMAIN metadata.manifests) = 1

\* the error verify_checksum raises for a check recorded in the history
ChecksumError(e) ==
    Outcome("RepositoryError", e.path, "checksum verification failed", 0,
            e.expected, HexDigest(e.data), "", NoFile)

Verifying == pc \in {"verify_compressed", "verify_open", "verify_module"}

\* C12: verify_checksum returns normally exactly when the hex digest of data
\* equals expected, compared case-sensitively (the right digest in upper case
\* fails); otherwise it raises an error carrying the label, the expected value
\* and the computed digest; either way the Repository's state is unchanged.
C12_VerifyChecksum ==
    /\ [](\A i \in Positions("verify_checksum") :
              /\ log[i].ok <=> HexDigest(log[i].data) = log[i].expected
              /\ log[i].ok => ~(i = Len(log) /\ pc = "raised")
              /\ ~log[i].ok => /\ i = Len(log)
                               /\ pc = "raised"
                               /\ result = ChecksumError(log[i]))
    /\ [][Verifying => self' = self /\ files' = files]_vars

C12_Witness ==
    /\ pc = "raised"
    /\ log # <<>>
    /\ log[Len(log)].op = "verify_checksum"
    /\ log[Len(log)].expected = Upper(HexDigest(log[Len(log)].data))
    /\ log[Len(log)].expected # HexDigest(log[Len(log)].data)
    /\ result = ChecksumError(log[Len(log)])

\* the urls of an invocation in the order the code asks for them
RequestOrder ==
    <<metadata_path>> \o (IF gpg_verify THEN <<metadata_sig_path>> ELSE <<>>)
        \o <<UrlOf(descriptor.location), UrlOf(module.location)>>

Before(i, op) == {j \in Positions(op) : j < i}

C14_WitnessRaised ==
    /\ pc = "raised"
    /\ Len(Calls("GET")) = 2
    /\ ~gpg_verify
    /\ result.kind = "IOError"

GzSuffix == <<".", "g", "z">>

EndsWithGz(location) ==
    /\ Len(location) >= Len(GzSuffix)
    /\ SubSeq(location, Len(location) - Len(GzSuffix) + 1, Len(location)) = GzSuffix

WithoutGz(location) == SubSeq(location, 1, Len(location) - Len(GzSuffix))

\* C15: the label of the decompressed-manifest verification is
\* descriptor.location with exactly its suffix `.gz` removed: a location
\* X + ".gz" is checked under the label X, whatever X ends with.
C15_OpenLabelStripsSuffix ==
    (Len(Checks) >= 2 /\ EndsWithGz(descriptor.location))
        => Checks[2].path = UrlOf(WithoutGz(descriptor.location))

LastOfVersion(children, version) ==
    CHOOSE i \in 1..Len(children) :
        /\ children[i].version = version
        /\ \A j \in (i + 1)..Len(children) : children[j].version # version

\* C16: the table parse_manifest builds has one key per distinct version of
\* the module children of the document; under each version it holds the
\* record of the last child with that version in document order, and every
\* record's version field equals its key.
C16_ManifestTable ==
    (Positions("parse_manifest") # {} /\ HasModules(manifest))
        => LET children == ModuleChildren(manifest) IN
           /\ DOMAIN table = {children[i].version : i \in 1..Len(children)}
           /\ \A version \in DOMAIN table :
                  /\ table[version] =
                         ModRecord(children[LastOfVersion(children, version)])
                  /\ table[version].version = version

\* the artifact has been written to the destination file in this invocation
Written == Positions("write") # {}

\* C17: fetch_module writes the downloaded bytes to the destination file
\* before they are verified; when that verification fails fetch raises and
\* the file stays on local storage with its unverified content, and the name
\* of such a file is never returned.
C17_WriteBeforeVerify ==
    /\ Written =>
           /\ filename \in DOMAIN files
           /\ \A j \in Positions("write") :
                  /\ files[filename] = log[j].data
                  /\ Before(j, "verify_checksum") = Positions("verify_checksum") \ {Len(log)}
                  /\ \A i \in Positions("verify_checksum") : i > j => i = Len(log)
           /\ pc = "verify_module" => Len(Checks) = 2
           /\ pc = "raised" =>
                  /\ Len(Checks) = 3
                  /\ HexDigest(files[filename]) # module.checksum
                  /\ result = ChecksumError(Checks[3])
                  /\ result.file = NoFile
    /\ result.file # NoFile =>
           /\ pc = "returned"
           /\ HexDigest(files[result.file]) = module.checksum

C17_Witness ==
    /\ pc = "raised"
    /\ Written
    /\ filename \in DOMAIN files
    /\ HexDigest(files[filename]) # module.checksum
    /\ result.file = NoFile

GetsIn(history) == SelectSeq(history, LAMBDA e : e.op = "GET")

IsPrefix(a, b) == Len(a) <= Len(b) /\ SubSeq(b, 1, Len(a)) = a

\* two outcomes that differ at most in the timestamp of the file name
SameOutcome(a, b) == [a EXCEPT !.file.stamp = 0] = [b EXCEPT !.file.stamp = 0]

SameCall ==
    /\ prev.done
    /\ prev.gpg_verify = gpg_verify
    /\ prev.kernel_version = kernel_version
    /\ prev.manifest_type = manifest_type

\* C13: the steps of fetch leave url, gpg_verify, metadata_dir and
\* metadata_file unchanged, and an invocation starts with nothing kept of the
\* one before: it asks for the index and the manifest again, and as long as
\* the remote answers as it did to the invocation before with the same
\* arguments, it makes the same calls and ends in the same outcome, the file
\* name differing at most in its timestamp.
C13_Independent ==
    /\ [][(pc \notin Finished \/ pc' \notin Finished) => self' = self]_vars
    /\ [](pc = "get_metadata" =>
              /\ log = <<>> /\ result = NoResult
              /\ raw_metadata = Unbound /\ signature = Unbound
              /\ metadata = NoMetadata /\ descriptor = NoDescriptor
              /\ gz_manifest = Unbound /\ manifest = Unbound
              /\ table = NoMap /\ module = NoModule /\ filename = NoFile)
    /\ [](pc \notin {"idle", "get_metadata"} =>
              /\ log # <<>>
              /\ log[1].op = "GET" /\ log[1].path = metadata_path
              /\ \A i \in Positions("parse_manifest") :
                     \E j \in ManifestGets : j < i /\ log[j].data = gz_manifest)
    /\ []((SameCall /\ pc \notin {"idle", "get_metadata"}
              /\ IsPrefix(GetsIn(log), GetsIn(prev.log)))
             => /\ IsPrefix(log, prev.log)
                /\ pc \in Finished =>
                       log = prev.log /\ SameOutcome(result, prev.result))

C13_Witness ==
    /\ SameCall
    /\ pc = "returned"
    /\ GetsIn(log) = GetsIn(prev.log)
    /\ prev.result.kind = "return"
    /\ result.file.stamp # prev.result.file.stamp

C13_WitnessRaised ==
    /\ SameCall
    /\ pc = "raised"
    /\ GetsIn(log) = GetsIn(prev.log)
    /\ result.kind = "KernelModuleNotFoundError"

\* a history without the GET of the index signature
WithoutSignature(history) ==
    SelectSeq(history, LAMBDA e : e.path # metadata_sig_path)

SignatureServed(history) ==
    \A i \in DOMAIN history :
        history[i].path = metadata_sig_path => history[i].status = 200

\* the invocation before had the same arguments and, but for the signature,
\* every request of this one got the reply it got then, on a Repository with
\* either value of gpg_verify
SameButSignature ==
    /\ prev.done
    /\ prev.kernel_version = kernel_version
    /\ prev.manifest_type = manifest_type
    /\ SignatureServed(log) /\ SignatureServed(prev.log)
    /\ IsPrefix(GetsIn(WithoutSignature(log)), GetsIn(WithoutSignature(prev.log)))

\* C18: the signature is never enforced: two invocations with the same
\* arguments and the same index, manifest and artifact replies, and status 200
\* on any .sig GET, make the same calls and end in the same outcome whatever
\* bytes the signature reply carries and whether gpg_verify is set or not; no
\* GET asks for a record's signature path.
C18_SignatureNotEnforced ==
    /\ (pc \in {"returned", "raised"} /\ SameButSignature)
           => /\ WithoutSignature(log) = WithoutSignature(prev.log)
              /\ SameOutcome(result, prev.result)
    /\ \A i \in Positions("GET") :
           /\ log[i].path # UrlOf(module.signature)
           /\ \A version \in DOMAIN table : log[i].path # UrlOf(table[version].signature)

C18_Witness ==
    /\ pc = "returned"
    /\ SameButSignature
    /\ gpg_verify /\ prev.gpg_verify
    /\ \E i \in GetsOf(metadata_sig_path) :
           \E j \in DOMAIN prev.log :
               /\ prev.log[j].path = metadata_sig_path
               /\ prev.log[j].data # log[i].data

C18_WitnessUnset ==
    /\ pc = "returned"
    /\ SameButSignature
    /\ gpg_verify # prev.gpg_verify

====
